---- MODULE Spec2Model ----
(***************************************************************************)
(* A model of the LWM2M protocol engine of iotagent-lwm2m-lib:             *)
(*   - the COAP request router (lib/services/coapRouter.js),               *)
(*   - the client registration lifecycle (lib/iotagent-lwm2m-client.js),   *)
(*   - the device-management operations (second half of coapRouter.js in   *)
(*     src/, the server's deviceManagement module).                        *)
(* Strings the code concatenates are modelled as sequences of tokens, so   *)
(* that a path or a payload can be taken apart again.                      *)
(* Record constructors list their fields in the order in which the names  *)
(* first appear in this module, which is the order of TLC's normal form.  *)
(***************************************************************************)
EXTENDS Integers, Sequences, FiniteSets, TLC

\* ------------------------------------------------------------------ bounds
MaxUrlLen == 3      \* characters of an inbound request's url
MaxEvents == 2      \* response / error events delivered for the registration request
MaxReqEvents == 1   \* response / error events delivered for an update or unregister request
MaxOptions == 2     \* options carried by a registration response
MaxCalls == 1       \* update calls and unregister calls made by the user, each
MaxObjects == 1     \* objects listed by the object registry
MaxRoutes == 2      \* routes of a drawn route table (SpecRouter)
MaxId == 1          \* object type / instance / resource ids are 0..MaxId
MaxAttrs == 2       \* keys of an attribute map
MaxListed == 3      \* objects of a listing whose payload is generated (SpecPayload)

\* --------------------------------------------------------------- constants
Undefined == "undefined"
\* an undefined deviceInformation, a null handler table, a null error
NoDevice == [undefined |-> TRUE]
NullHandlers == <<>>
NoError == [name |-> "null"]
IsUndefined(d) == "undefined" \in DOMAIN d
Codes == {"2.01", "2.04", "2.05", "4.04", "4.00"}
RegCodes == {"2.01", "2.02", "4.04"}
Hosts == {"localhost"}
Ports == {"5683", "60001"}
Urls == {""}
Endpoints == {"ep1"}
Locations == {"/rd/1", "/rd/2"}
ResponseOptions ==
    {[name |-> "Location-Path", value |-> l] : l \in Locations}
        \cup {[name |-> "Max-Age", value |-> "60"]}
ObjectUris == {"/3/0"}
UserHandlers == {"defaultHandler", "userHandler"}
Methods == {"GET", "PUT", "POST"}
UrlChars == {"/", "1", "a", "?"}
Digits == {"1"}

\* the one pattern of the route table, /(\/\d+)+/
IntPathPattern == "(/d+)+"

VARIABLES
    server,             \* serverInfo.server: the transport handle's state
    routes,             \* serverInfo.routes
    handlers,           \* serverInfo.handlers
    deviceInformation,  \* the record startListener builds (or Undefined)
    req,                \* register's request object and its listeners
    regPhase,           \* where the register call is
    errorEmitted,       \* register's closure flag
    regEvents,          \* events delivered for the registration request
    regCallback,        \* invocations of register's completion callback
    stopCalls,          \* coapRouter.stop invocations, in order
    outReqs,            \* update / unregister requests, in order of creation
    updCallback,        \* invocations of update's completion callbacks
    unregCallback,      \* invocations of unregister's completion callbacks
    registryObjects,    \* what objRegistry.list answers
    thrown,             \* places where an exception was thrown and not caught
    lastDispatch        \* the last inbound request and what the router did

clientVars == <<server, routes, handlers, deviceInformation, req, regPhase,
                errorEmitted, regEvents, regCallback, stopCalls, outReqs,
                updCallback, unregCallback, registryObjects, thrown, lastDispatch>>

\* the device-management operation in progress (the server's side)
VARIABLES
    dmCall,             \* the operation called and its arguments
    dmPhase,            \* where its pipeline is
    dmParallel,         \* writeAttributes: whether async.parallel has already answered
    dmSent,             \* requests handed to the transport, in order
    dmEvents,           \* what the transport answered, in order
    dmCallback,         \* invocations of the caller's completion callback
    dmThrown            \* places where an exception was thrown and not caught

dmVars == <<dmCall, dmPhase, dmParallel, dmSent, dmEvents, dmCallback, dmThrown>>

vars == <<clientVars, dmVars>>

\* ------------------------------------------------------------- sequences
RECURSIVE SeqsUpTo(_, _)
SeqsUpTo(S, n) ==
    IF n = 0 THEN {<<>>}
    ELSE LET shorter == SeqsUpTo(S, n - 1)
         IN  shorter \cup {Append(s, x) : s \in {t \in shorter : Len(t) = n - 1}, x \in S}

Last(s) == s[Len(s)]

\* ------------------------------------------------------------ coapRouter
\* url.parse(req.url).pathname: the url up to its first '?'
RECURSIVE pathname(_)
pathname(url) ==
    IF url = <<>> \/ Head(url) = "?" THEN <<>>
    ELSE <<Head(url)>> \o pathname(Tail(url))

\* String.prototype.match with the unanchored /(\/\d+)+/: some '/' is followed by a digit
match(path, pattern) ==
    /\ pattern = IntPathPattern
    /\ \E i \in 1..(Len(path) - 1) : path[i] = "/" /\ path[i + 1] \in Digits

RouteMatches(request, route) ==
    /\ request.method = route[1]
    /\ match(pathname(request.url), route[2])

NotFound == [invoked |-> <<>>, code |-> "4.04", ended |-> TRUE, body |-> "", threw |-> FALSE]

\* the handler dataHandler(serverInfo) returns, applied to a request: the calls of
\* library handlers it makes and what it does to the response
RECURSIVE scanRoutes(_, _, _, _)
scanRoutes(rts, hs, request, i) ==
    IF i > Len(rts) THEN NotFound
    ELSE IF RouteMatches(request, rts[i])
         THEN IF rts[i][3] \notin DOMAIN hs
              THEN [invoked |-> <<>>, code |-> Undefined, ended |-> FALSE, body |-> Undefined,
                    threw |-> TRUE]
              ELSE [invoked |-> <<[request |-> request, lib |-> hs[rts[i][3]].lib,
                                   user |-> hs[rts[i][3]].user]>>,
                    code |-> Undefined, ended |-> FALSE, body |-> Undefined, threw |-> FALSE]
         ELSE scanRoutes(rts, hs, request, i + 1)

\* a scan that lets the last matching route win
RECURSIVE scanRoutesBackwards(_, _, _, _)
scanRoutesBackwards(rts, hs, request, i) ==
    IF i < 1 THEN NotFound
    ELSE IF RouteMatches(request, rts[i])
         THEN scanRoutes(<<rts[i]>>, hs, request, 1)
         ELSE scanRoutesBackwards(rts, hs, request, i - 1)

dataHandlerLastMatch(rts, hs, request) == scanRoutesBackwards(rts, hs, request, Len(rts))

dataHandler(rts, hs, request) == scanRoutes(rts, hs, request, 1)

\* loadHandlers(serverInfo)
loadHandlers ==
    [write |-> [lib |-> "write.handle", user |-> "defaultHandler"],
     read  |-> [lib |-> "read.handle",  user |-> "defaultHandler"]]

\* loadRoutes(serverInfo)
loadRoutes ==
    << <<"PUT", IntPathPattern, "write">>,
       <<"GET", IntPathPattern, "read">> >>

NoDispatch == [request |-> [url |-> <<>>, method |-> "none"], outcome |-> NotFound]

Requests ==
    {[url |-> <<"/">> \o u, method |-> m] : m \in Methods, u \in SeqsUpTo(UrlChars, MaxUrlLen - 1)}


\* ---------------------------------------------------------------- errors
ServerNotFound(host, port) == [name |-> "ServerNotFound", arg |-> <<host, ":", port>>]
RegistrationFailed(code) == [name |-> "RegistrationFailed", arg |-> code]

\* ------------------------------------------------- registration lifecycle
NoRequest == [state |-> "none"]

\* register's creationRequest and coap.request(creationRequest)
creationRequest(host, port, url, endpointName) ==
    [pathname |-> <<(IF url # "" THEN url ELSE ""), "/rd">>, method |-> "POST",
     host |-> host, port |-> port, state |-> "created",
     query |-> <<"ep=", endpointName, "&lt=", "config.client.lifetime",
                 "&lwm2m=", "config.client.version", "&b=U">>,
     payload |-> <<>>, onResponse |-> FALSE, onError |-> FALSE]

\* a reduction that writes the separator after every object
RECURSIVE reducePayloadCommaAfterEach(_, _, _)
reducePayloadCommaAfterEach(objects, index, previous) ==
    IF index > Len(objects) THEN previous
    ELSE reducePayloadCommaAfterEach(objects, index + 1,
            previous \o <<"<", objects[index], ">", ",">>)

\* generatePayload(objects): '<' + objectUri + '>' of each object, a ',' after
\* each but the last
RECURSIVE reducePayload(_, _, _)
reducePayload(objects, index, previous) ==
    IF index > Len(objects) THEN previous
    ELSE reducePayload(objects, index + 1,
            previous \o <<"<", objects[index], ">">>
                     \o (IF index # Len(objects) THEN <<",">> ELSE <<>>))

generatePayload(objects) == reducePayload(objects, 1, <<>>)

ObjectLists == SeqsUpTo(ObjectUris, MaxObjects)

InitClient ==
    /\ server = "none"
    /\ routes = <<>>
    /\ handlers = NullHandlers
    /\ deviceInformation = NoDevice
    /\ req = NoRequest
    /\ regPhase = "idle"
    /\ errorEmitted = FALSE
    /\ regEvents = <<>>
    /\ regCallback = <<>>
    /\ stopCalls = <<>>
    /\ outReqs = <<>>
    /\ updCallback = <<>>
    /\ unregCallback = <<>>
    /\ registryObjects \in ObjectLists
    /\ thrown = {}
    /\ lastDispatch = NoDispatch

\* a start that fills the route table when it creates the server, before the
\* handlers are loaded
registerRoutesFirst(host, port, url, endpointName) ==
    /\ regPhase = "idle"
    /\ req' = creationRequest(host, port, url, endpointName)
    /\ server' = "binding"
    /\ routes' = loadRoutes
    /\ handlers' = NullHandlers
    /\ regPhase' = "starting"
    /\ UNCHANGED <<deviceInformation, errorEmitted, regEvents, regCallback, stopCalls,
                   outReqs, updCallback, unregCallback, registryObjects, thrown, lastDispatch>>
    /\ UNCHANGED dmVars

\* register(host, port, url, endpointName, callback) up to the return of
\* startListener: the request object is created, startCoap creates the server,
\* installs dataHandler and asks the transport to listen
register(host, port, url, endpointName) ==
    /\ regPhase = "idle"
    /\ req' = creationRequest(host, port, url, endpointName)
    /\ server' = "binding"
    /\ routes' = <<>>
    /\ handlers' = NullHandlers
    /\ regPhase' = "starting"
    /\ UNCHANGED <<deviceInformation, errorEmitted, regEvents, regCallback, stopCalls,
                   outReqs, updCallback, unregCallback, registryObjects, thrown, lastDispatch>>
    /\ UNCHANGED dmVars

\* the transport binds the port, or fails to; listen's callback has not run yet
bind(ok) ==
    /\ server = "binding"
    /\ server' = IF ok THEN "bound" ELSE "bindFailed"
    /\ UNCHANGED <<routes, handlers, deviceInformation, req, regPhase, errorEmitted,
                   regEvents, regCallback, stopCalls, outReqs, updCallback, unregCallback,
                   registryObjects, thrown, lastDispatch>>
    /\ UNCHANGED dmVars

\* sendRequest of register: the payload is piped into the request
sentWith(r) == [r EXCEPT !.state = "sent", !.payload = generatePayload(registryObjects)]

\* The callback of server.listen (startCoap), then startListener's callback, then
\* the function register passes to startListener: the waterfall attaches the
\* response listener and asks for the object list; the error listener is attached.
\* objRegistry.list answers at once (sync) or later.
listenCallback(sync) ==
    /\ regPhase = "starting"
    /\ server \in {"bound", "bindFailed"}
    /\ IF server = "bound"
       THEN /\ server' = "listening"
            /\ deviceInformation' = [currentHost |-> req.host, currentPort |-> req.port,
                                     location |-> "", serverInfo |-> "serverInfo"]
            /\ handlers' = loadHandlers
            /\ routes' = loadRoutes
       ELSE \* startListener: callback(error); register ignores the error
            /\ server' = "failed"
            /\ deviceInformation' = NoDevice
            /\ UNCHANGED <<handlers, routes>>
    /\ LET listening == [req EXCEPT !.onResponse = TRUE, !.onError = TRUE]
       IN  req' = IF sync THEN sentWith(listening) ELSE listening
    /\ regPhase' = IF sync THEN "sent" ELSE "listing"
    /\ UNCHANGED <<errorEmitted, regEvents, regCallback, stopCalls, outReqs, updCallback,
                   unregCallback, registryObjects, thrown, lastDispatch>>
    /\ UNCHANGED dmVars

\* the rest of register's waterfall: objRegistry.list answers, generatePayload,
\* sendRequest
sendRequest ==
    /\ regPhase = "listing"
    /\ req' = sentWith(req)
    /\ regPhase' = "sent"
    /\ UNCHANGED <<server, routes, handlers, deviceInformation, errorEmitted, regEvents,
                   regCallback, stopCalls, outReqs, updCallback, unregCallback, registryObjects,
                   thrown, lastDispatch>>
    /\ UNCHANGED dmVars

\* coapRouter.stop(serverInfo, callback): server.close(callback)
stopCoap(calls, by) == Append(calls, [by |-> by, done |-> FALSE, result |-> NoError])

\* a loop that looks for an option name no response carries
locationNeverRecorded(location, options, i) == location

\* the value of deviceInformation.location after responseHandler's loop over
\* res.options: every Location-Path option overwrites it
RECURSIVE locationAfter(_, _, _)
locationAfter(location, options, i) ==
    IF i > Len(options) THEN location
    ELSE locationAfter(IF options[i].name = "Location-Path" THEN options[i].value
                       ELSE location, options, i + 1)

Options == SeqsUpTo(ResponseOptions, MaxOptions)

\* a handler that records the location before it looks at the code
responseHandlerRecordsAlways(res) ==
    IF IsUndefined(deviceInformation)
    THEN /\ thrown' = thrown \cup {"responseHandler"}
         /\ UNCHANGED <<deviceInformation, regCallback>>
    ELSE /\ deviceInformation' =
               [deviceInformation EXCEPT
                   !.location = locationAfter(deviceInformation.location, res.options, 1)]
         /\ regCallback' = Append(regCallback,
                IF res.code = "2.01"
                THEN [result |-> deviceInformation', error |-> NoError]
                ELSE [result |-> NoDevice, error |-> RegistrationFailed(res.code)])
         /\ UNCHANGED thrown

\* responseHandler(res) of createRegisterResponseHandler(deviceInformation, callback)
responseHandler(res) ==
    IF res.code = "2.01"
    THEN IF IsUndefined(deviceInformation)
         THEN \* deviceInformation.host of an undefined deviceInformation
              /\ thrown' = thrown \cup {"responseHandler"}
              /\ UNCHANGED <<deviceInformation, regCallback>>
         ELSE /\ deviceInformation' =
                    [deviceInformation EXCEPT
                        !.location = locationAfter(deviceInformation.location, res.options, 1)]
              /\ regCallback' = Append(regCallback,
                                       [result |-> deviceInformation', error |-> NoError])
              /\ UNCHANGED thrown
    ELSE /\ regCallback' = Append(regCallback,
                                  [result |-> NoDevice, error |-> RegistrationFailed(res.code)])
         /\ UNCHANGED <<deviceInformation, thrown>>

\* a 'response' event of the registration request
regResponse(res) ==
    /\ req.state = "sent"
    /\ req.onResponse
    /\ Len(regEvents) < MaxEvents
    /\ regEvents' = Append(regEvents, [res |-> res, event |-> "response"])
    /\ responseHandler(res)
    /\ UNCHANGED <<server, routes, handlers, req, regPhase, errorEmitted, stopCalls,
                   outReqs, updCallback, unregCallback, registryObjects, lastDispatch>>
    /\ UNCHANGED dmVars

NoResponse == [code |-> "none", options |-> <<>>]

\* an error listener that reports the failure and leaves the local router running
regErrorNoStop ==
    /\ req.state = "sent"
    /\ req.onError
    /\ Len(regEvents) < MaxEvents
    /\ regEvents' = Append(regEvents, [res |-> NoResponse, event |-> "error"])
    /\ IF IsUndefined(deviceInformation)
       THEN /\ thrown' = thrown \cup {"errorListener"}
            /\ UNCHANGED <<errorEmitted, regCallback>>
       ELSE /\ errorEmitted' = TRUE
            /\ regCallback' = IF ~errorEmitted
                              THEN Append(regCallback,
                                          [result |-> NoDevice,
                                           error |-> ServerNotFound(req.host, req.port)])
                              ELSE regCallback
            /\ UNCHANGED thrown
    /\ UNCHANGED <<stopCalls, server, routes, handlers, deviceInformation, req, regPhase,
                   outReqs, updCallback, unregCallback, registryObjects, lastDispatch>>
    /\ UNCHANGED dmVars

\* an 'error' event of the registration request: the listener register attaches
regError ==
    /\ req.state = "sent"
    /\ req.onError
    /\ Len(regEvents) < MaxEvents
    /\ regEvents' = Append(regEvents, [res |-> NoResponse, event |-> "error"])
    /\ IF IsUndefined(deviceInformation)
       THEN \* deviceInformation.serverInfo of an undefined deviceInformation
            /\ thrown' = thrown \cup {"errorListener"}
            /\ UNCHANGED <<stopCalls, server, errorEmitted, regCallback>>
       ELSE /\ stopCalls' = stopCoap(stopCalls, "register")
            /\ server' = "closed"
            /\ errorEmitted' = TRUE
            /\ regCallback' = IF ~errorEmitted
                              THEN Append(regCallback,
                                          [result |-> NoDevice,
                                           error |-> ServerNotFound(req.host, req.port)])
                              ELSE regCallback
            /\ UNCHANGED thrown
    /\ UNCHANGED <<routes, handlers, deviceInformation, req, regPhase, outReqs,
                   updCallback, unregCallback, registryObjects, lastDispatch>>
    /\ UNCHANGED dmVars


\* -------------------------------------------------------- update, unregister
\* the events of an update or unregister request
ResponseEvent(code) == [code |-> code, event |-> "response"]
ErrorEvent == [code |-> "none", event |-> "error"]

\* the user holds a deviceInformation once register's callback was handed one
UserHoldsDevice == \E i \in 1..Len(regCallback) : regCallback[i].error = NoError

CallsOf(kind) == {i \in 1..Len(outReqs) : outReqs[i].kind = kind}

\* updateRegistration(deviceInformation, callback): the request is created from the
\* record, the response listener attached, and the waterfall lists the registryObjects,
\* generates the payload and pipes it into the request
updateRegistration ==
    /\ UserHoldsDevice
    /\ Cardinality(CallsOf("update")) < MaxCalls
    /\ outReqs' = Append(outReqs,
            [pathname |-> deviceInformation.location, method |-> "PUT",
             host |-> deviceInformation.currentHost, port |-> deviceInformation.currentPort,
             query |-> <<"lt=", "config.client.lifetime", "&lwm2m=",
                         "config.client.version", "&b=U">>,
             payload |-> generatePayload(registryObjects),
             kind |-> "update", events |-> <<>>])
    /\ UNCHANGED <<server, routes, handlers, deviceInformation, req, regPhase,
                   errorEmitted, regEvents, regCallback, stopCalls, updCallback,
                   unregCallback, registryObjects, thrown, lastDispatch>>
    /\ UNCHANGED dmVars

\* a strict update, which reports every code but 2.04 as a failure
updateResponseStrict(i, code) ==
    /\ i \in CallsOf("update")
    /\ Len(outReqs[i].events) < MaxReqEvents
    /\ outReqs' = [outReqs EXCEPT ![i].events = Append(@, ResponseEvent(code))]
    /\ updCallback' = Append(updCallback,
            [request |-> i,
             result |-> deviceInformation,
             error |-> IF code = "2.04" THEN NoError ELSE RegistrationFailed(code)])
    /\ UNCHANGED <<server, routes, handlers, deviceInformation, req, regPhase,
                   errorEmitted, regEvents, regCallback, stopCalls, unregCallback,
                   registryObjects, thrown, lastDispatch>>
    /\ UNCHANGED dmVars

\* a 'response' event of update request i: callback(null, deviceInformation)
updateResponse(i, code) ==
    /\ i \in CallsOf("update")
    /\ Len(outReqs[i].events) < MaxReqEvents
    /\ outReqs' = [outReqs EXCEPT ![i].events = Append(@, ResponseEvent(code))]
    /\ updCallback' = Append(updCallback,
            [request |-> i, result |-> deviceInformation, error |-> NoError])
    /\ UNCHANGED <<server, routes, handlers, deviceInformation, req, regPhase,
                   errorEmitted, regEvents, regCallback, stopCalls, unregCallback, registryObjects,
                   thrown, lastDispatch>>
    /\ UNCHANGED dmVars

\* unregister(deviceInformation, callback): the request is created from the record,
\* the response listener attached, and req.end() sends it
unregister ==
    /\ UserHoldsDevice
    /\ Cardinality(CallsOf("unregister")) < MaxCalls
    /\ outReqs' = Append(outReqs,
            [pathname |-> deviceInformation.location, method |-> "DELETE",
             host |-> deviceInformation.currentHost, port |-> deviceInformation.currentPort,
             query |-> <<>>, payload |-> <<>>,
             kind |-> "unregister", events |-> <<>>])
    /\ UNCHANGED <<server, routes, handlers, deviceInformation, req, regPhase,
                   errorEmitted, regEvents, regCallback, stopCalls, updCallback,
                   unregCallback, registryObjects, thrown, lastDispatch>>
    /\ UNCHANGED dmVars

\* an unregister that stops the router only when the server deleted the registration
unregisterResponseOnDeleted(i, code) ==
    /\ i \in CallsOf("unregister")
    /\ Len(outReqs[i].events) < MaxReqEvents
    /\ outReqs' = [outReqs EXCEPT ![i].events = Append(@, ResponseEvent(code))]
    /\ stopCalls' = IF code = "2.02" THEN stopCoap(stopCalls, "unregister") ELSE stopCalls
    /\ server' = IF code = "2.02" THEN "closed" ELSE server
    /\ UNCHANGED <<routes, handlers, deviceInformation, req, regPhase, errorEmitted,
                   regEvents, regCallback, updCallback, unregCallback, registryObjects,
                   thrown, lastDispatch>>
    /\ UNCHANGED dmVars

\* a 'response' event of unregister request i:
\* coapRouter.stop(deviceInformation.serverInfo, callback)
unregisterResponse(i, code) ==
    /\ i \in CallsOf("unregister")
    /\ Len(outReqs[i].events) < MaxReqEvents
    /\ outReqs' = [outReqs EXCEPT ![i].events = Append(@, ResponseEvent(code))]
    /\ stopCalls' = stopCoap(stopCalls, "unregister")
    /\ server' = "closed"
    /\ UNCHANGED <<routes, handlers, deviceInformation, req, regPhase, errorEmitted,
                   regEvents, regCallback, updCallback, unregCallback, registryObjects,
                   thrown, lastDispatch>>
    /\ UNCHANGED dmVars

\* an 'error' event of an update or unregister request: neither function attaches
\* an error listener, so the emitter throws
requestError(i) ==
    /\ i \in 1..Len(outReqs)
    /\ Len(outReqs[i].events) < MaxReqEvents
    /\ outReqs' = [outReqs EXCEPT ![i].events = Append(@, ErrorEvent)]
    /\ thrown' = thrown \cup {"unhandledError"}
    /\ UNCHANGED <<server, routes, handlers, deviceInformation, req, regPhase,
                   errorEmitted, regEvents, regCallback, stopCalls, updCallback,
                   unregCallback, registryObjects, lastDispatch>>
    /\ UNCHANGED dmVars

CloseResults == {NoError, [name |-> "closeError"]}

\* the transport calls the callback handed to server.close by stop call i: the
\* function register passes only logs, unregister passes its completion callback
closeCallback(i, result) ==
    /\ i \in 1..Len(stopCalls)
    /\ ~stopCalls[i].done
    /\ stopCalls' = [stopCalls EXCEPT ![i].done = TRUE, ![i].result = result]
    /\ unregCallback' = IF stopCalls[i].by = "unregister"
                        THEN Append(unregCallback, [error |-> result, stop |-> i])
                        ELSE unregCallback
    /\ UNCHANGED <<server, routes, handlers, deviceInformation, req, regPhase,
                   errorEmitted, regEvents, regCallback, outReqs, updCallback, registryObjects,
                   thrown, lastDispatch>>
    /\ UNCHANGED dmVars

\* ------------------------------------------------------------------ router
HandlerTypes == {"read", "write", "execute"}

\* setHandler(serverInfo, type, handler): serverInfo.handlers[type].user = handler
setHandler(type, handler) ==
    /\ UserHoldsDevice
    /\ IF type \in DOMAIN handlers
       THEN /\ handlers' = [handlers EXCEPT ![type].user = handler]
            /\ handlers' # handlers
            /\ UNCHANGED thrown
       ELSE /\ "setHandler" \notin thrown
            /\ thrown' = thrown \cup {"setHandler"}
            /\ UNCHANGED handlers
    /\ UNCHANGED <<server, routes, deviceInformation, req, regPhase,
                   errorEmitted, regEvents, regCallback, stopCalls, outReqs, updCallback,
                   unregCallback, registryObjects, lastDispatch>>
    /\ UNCHANGED dmVars

\* a 'request' event of the server: the function dataHandler(serverInfo) returned
dispatch(request) ==
    /\ server \in {"bound", "listening"}
    /\ LET outcome == dataHandler(routes, handlers, request)
       IN  /\ lastDispatch' = [request |-> request, outcome |-> outcome]
           /\ thrown' = IF outcome.threw THEN thrown \cup {"dataHandler"} ELSE thrown
    /\ UNCHANGED <<server, routes, handlers, deviceInformation, req, regPhase,
                   errorEmitted, regEvents, regCallback, stopCalls, outReqs, updCallback,
                   unregCallback, registryObjects>>
    /\ UNCHANGED dmVars

Responses == [code : RegCodes, options : Options]

NextClient ==
    \/ \E h \in Hosts, p \in Ports, u \in Urls, e \in Endpoints : register(h, p, u, e)
    \/ \E ok \in BOOLEAN : bind(ok)
    \/ \E sync \in BOOLEAN : listenCallback(sync)
    \/ sendRequest
    \/ \E res \in Responses : regResponse(res)
    \/ regError
    \/ updateRegistration
    \/ \E i \in 1..Len(outReqs), code \in RegCodes : updateResponse(i, code)
    \/ unregister
    \/ \E i \in 1..Len(outReqs), code \in RegCodes : unregisterResponse(i, code)
    \/ \E i \in 1..Len(outReqs) : requestError(i)
    \/ \E i \in 1..Len(stopCalls), result \in CloseResults : closeCallback(i, result)

\* ------------------------------------------------ device management
\* JavaScript values an argument can hold: a number, a function, undefined
Num(n) == [type |-> "number", num |-> n, fn |-> ""]
Fn(name) == [type |-> "function", num |-> 0, fn |-> name]
Undef == [type |-> "undefined", num |-> 0, fn |-> ""]

\* the truth value JavaScript gives a value in a condition
Truthy(x) == x.type = "function" \/ (x.type = "number" /\ x.num # 0)

\* the string JavaScript concatenates for a value
Str(x) ==
    IF x.type = "number" THEN ToString(x.num)
    ELSE IF x.type = "function" THEN "function" ELSE "undefined"

Ids == {Num(n) : n \in 0..MaxId}
Callback == Fn("callback")

\* the device registry handed to init: the devices it knows, with their address
Registry == [dev1 |-> [address |-> "10.0.0.5"]]
DeviceIds == {"dev1", "dev9"}
LookupError(deviceId) == [name |-> "DeviceNotFound", arg |-> deviceId]

CoapPort == 5683

InitDM ==
    /\ dmCall = [op |-> "none"]
    /\ dmPhase = "idle"
    /\ dmParallel = "none"
    /\ dmSent = <<>>
    /\ dmEvents = <<>>
    /\ dmCallback = <<>>
    /\ dmThrown = {}

Init == InitClient /\ InitDM

\* async.waterfall(tasks, callback) and async.parallel call `callback || noop`:
\* the caller's function is called, a number is called (and throws), or nothing is
invoke(callback, error, result) ==
    IF callback.type = "function"
    THEN /\ dmCallback' = Append(dmCallback, [result |-> result, error |-> error,
                                              fn |-> callback.fn])
         /\ UNCHANGED dmThrown
    ELSE IF Truthy(callback)
         THEN /\ dmThrown' = dmThrown \cup {"callbackNotAFunction"}
              /\ UNCHANGED dmCallback
         ELSE UNCHANGED <<dmCallback, dmThrown>>

NoResult == "undefined"

\* errors of the device-management operations
ObjectNotFound(path) == [name |-> "ObjectNotFound", arg |-> path]
ClientError(code) == [name |-> "ClientError", arg |-> code]
UnsupportedAttributes(names) == [name |-> "UnsupportedAttributes", arg |-> names]
TransportError == [name |-> "TransportError", arg |-> ""]

\* a response's payload is a buffer of bytes; toString('utf8') of the ASCII bytes used
Utf8Char == [b \in {48, 50} |-> IF b = 48 THEN "0" ELSE "2"]
toString(buffer) == [k \in DOMAIN buffer |-> Utf8Char[buffer[k]]]
Payloads == {<<>>, <<50, 48>>}
DMResponses == [code : Codes, payload : Payloads]

NoOptions == <<>>
coapRequest(host, method, path, payload, options) ==
    [pathname |-> path, method |-> method, host |-> host, port |-> CoapPort,
     payload |-> payload, options |-> options]

\* '/' + objectType + '/' + objectId + '/' + resourceId, and its prefixes
path1(objectType) == <<"/", Str(objectType)>>
path2(objectType, objectId) == path1(objectType) \o <<"/", Str(objectId)>>
path3(objectType, objectId, resourceId) == path2(objectType, objectId) \o <<"/", Str(resourceId)>>

\* createReadRequest of read
createReadRequest(obj, call) ==
    coapRequest(obj.address, "GET", path3(call.objectType, call.objectId, call.resourceId),
            <<>>, NoOptions)

\* createUpdateRequest of write
createUpdateRequest(obj, call) ==
    coapRequest(obj.address, "PUT", path3(call.objectType, call.objectId, call.resourceId),
            call.value, NoOptions)

\* a processResponse without the branch for 4.04
processResponseNoNotFound(res, call) ==
    IF res.code = "2.04" THEN [result |-> toString(res.payload), error |-> NoError]
    ELSE [result |-> NoResult, error |-> ClientError(res.code)]

\* processResponse of write
processResponse(res, call) ==
    IF res.code = "2.04" THEN [result |-> toString(res.payload), error |-> NoError]
    ELSE IF res.code = "4.04"
         THEN [result |-> NoResult,
               error |-> ObjectNotFound(path2(call.objectType, call.objectId))]
         ELSE [result |-> NoResult, error |-> ClientError(res.code)]

\* coapUtils.generateProcessResponse(objectType, objectId, resourceId, code)
generateProcessResponse(code, res) ==
    IF res.code = code THEN [result |-> toString(res.payload), error |-> NoError]
    ELSE [result |-> NoResult, error |-> ClientError(res.code)]

\* createQueryParams of writeAttributes: the query string and the list of the keys
\* that are not valid attributes, in the order for-in visits the map's keys
validAttributes == {"pmin", "pmax", "gt", "lt", "st", "cancel"}

RECURSIVE queryOf(_, _)
queryOf(attributes, k) ==
    IF k > Len(attributes) THEN <<>>
    ELSE (IF attributes[k].name \in validAttributes
          THEN <<attributes[k].name, "=", attributes[k].value, "&">> ELSE <<>>)
         \o queryOf(attributes, k + 1)

RECURSIVE errorListOf(_, _)
errorListOf(attributes, k) ==
    IF k > Len(attributes) THEN <<>>
    ELSE (IF attributes[k].name \in validAttributes THEN <<>> ELSE <<attributes[k].name>>)
         \o errorListOf(attributes, k + 1)

\* a validation that stops at the first key that is not a valid attribute
createQueryParamsFirstOnly(attributes) ==
    IF errorListOf(attributes, 1) # <<>>
    THEN [result |-> <<>>,
          error |-> UnsupportedAttributes(<<Head(errorListOf(attributes, 1))>>)]
    ELSE [result |-> <<"?">> \o queryOf(attributes, 1), error |-> NoError]

createQueryParams(attributes) ==
    IF errorListOf(attributes, 1) # <<>>
    THEN [result |-> <<>>, error |-> UnsupportedAttributes(errorListOf(attributes, 1))]
    ELSE [result |-> <<"?">> \o queryOf(attributes, 1), error |-> NoError]

\* createWriteAttributesRequest of writeAttributes (data[1] is the query string)
createWriteAttributesRequest(obj, call) ==
    LET query == createQueryParams(call.attributes).result
    IN  coapRequest(obj.address, "PUT",
            (IF Truthy(call.objectType) /\ Truthy(call.objectId) /\ Truthy(call.resourceId)
             THEN path3(call.objectType, call.objectId, call.resourceId)
             ELSE IF Truthy(call.objectType) /\ Truthy(call.objectId)
                  THEN path2(call.objectType, call.objectId)
                  ELSE path1(call.objectType)) \o query,
            <<>>, NoOptions)

\* discover's choice of the path and of the callback among its last four arguments
discoverPathname(objectType, objectId, resourceId, fullCallback) ==
    IF Truthy(objectId) /\ Truthy(resourceId) /\ Truthy(fullCallback)
    THEN path3(objectType, objectId, resourceId)
    ELSE IF Truthy(objectId) /\ Truthy(resourceId)
         THEN path2(objectType, objectId)
         ELSE path1(objectType)

discoverTrueCallback(objectType, objectId, resourceId, fullCallback) ==
    IF Truthy(objectId) /\ Truthy(resourceId) /\ Truthy(fullCallback)
    THEN fullCallback
    ELSE IF Truthy(objectId) /\ Truthy(resourceId)
         THEN resourceId
         ELSE objectId

\* createReadRequest of discover
createDiscoverRequest(obj, call) ==
    coapRequest(obj.address, "GET",
            discoverPathname(call.objectType, call.objectId, call.resourceId, call.last),
            <<>>, <<[name |-> "Accept", value |-> "application/link-format"]>>)

\* createUpdateRequest of create
createCreateRequest(obj, call) ==
    coapRequest(obj.address, "POST", path2(call.objectType, call.objectId), <<>>, NoOptions)

\* the request an operation's pipeline builds once the registry has answered
buildRequest(obj, call) ==
    CASE call.op = "read" -> createReadRequest(obj, call)
      [] call.op = "write" -> createUpdateRequest(obj, call)
      [] call.op = "writeAttributes" -> createWriteAttributesRequest(obj, call)
      [] call.op = "discover" -> createDiscoverRequest(obj, call)
      [] call.op = "create" -> createCreateRequest(obj, call)

\* what an operation's last waterfall task makes of a response
interpret(res, call) ==
    CASE call.op = "read" -> generateProcessResponse("2.05", res)
      [] call.op = "write" -> processResponse(res, call)
      [] call.op = "writeAttributes" -> generateProcessResponse("2.04", res)
      [] call.op = "discover" -> generateProcessResponse("2.05", res)
      [] call.op = "create" -> generateProcessResponse("2.01", res)

\* coapUtils.sendRequest(request, callback): the request goes to the transport
sendOnTransport(r) ==
    /\ dmSent' = Append(dmSent, r)
    /\ dmPhase' = "sent"
    /\ UNCHANGED <<dmCallback, dmThrown>>

\* the waterfall fails: its callback gets the error and no later task runs
failWith(call, error) ==
    /\ dmPhase' = "done"
    /\ invoke(call.callback, error, NoResult)
    /\ UNCHANGED dmSent

\* registry.get(deviceId) answers: the first task of the waterfall of read, write,
\* discover and create
resolved(call) ==
    /\ IF call.deviceId \in DOMAIN Registry
       THEN sendOnTransport(buildRequest(Registry[call.deviceId], call))
       ELSE failWith(call, LookupError(call.deviceId))
    /\ UNCHANGED dmParallel

\* an operation is called; registry.get answers during the call (sync) or later
start(call, sync) ==
    /\ dmPhase = "idle"
    /\ dmCall' = call
    /\ IF sync THEN resolved(call)
       ELSE /\ dmPhase' = "lookup"
            /\ UNCHANGED <<dmParallel, dmSent, dmCallback, dmThrown>>
    /\ UNCHANGED dmEvents
    /\ UNCHANGED clientVars

Call(op, deviceId, objectType, objectId, resourceId, last, value, attributes, callback, sync) ==
    [value |-> value, sync |-> sync, deviceId |-> deviceId, op |-> op,
     callback |-> callback, objectType |-> objectType, objectId |-> objectId,
     resourceId |-> resourceId, attributes |-> attributes, last |-> last]

\* read(deviceId, objectType, objectId, resourceId, callback)
read(deviceId, objectType, objectId, resourceId, sync) ==
    start(Call("read", deviceId, objectType, objectId, resourceId, Callback, <<>>, <<>>,
               Callback, sync), sync)

\* write(deviceId, objectType, objectId, resourceId, value, callback)
write(deviceId, objectType, objectId, resourceId, value, sync) ==
    start(Call("write", deviceId, objectType, objectId, resourceId, Callback, value, <<>>,
               Callback, sync), sync)

\* create(deviceId, objectType, objectId, callback)
create(deviceId, objectType, objectId, sync) ==
    start(Call("create", deviceId, objectType, objectId, Undef, Callback, <<>>, <<>>,
               Callback, sync), sync)

\* discover(deviceId, objectType, objectId, resourceId, fullCallback): the four last
\* arguments are what the caller passed, address components and then the callback
discover(deviceId, objectType, objectId, resourceId, fullCallback, sync) ==
    LET call == Call("discover", deviceId, objectType, objectId, resourceId, fullCallback,
                     <<>>, <<>>,
                     discoverTrueCallback(objectType, objectId, resourceId, fullCallback),
                     sync)
    IN  IF ~Truthy(objectType) /\ ~Truthy(objectId) /\ ~Truthy(resourceId)
        THEN \* 'Method called with wrong number of parameters' is logged
             /\ dmPhase = "idle"
             /\ sync
             /\ UNCHANGED clientVars
             /\ dmCall' = call
             /\ dmPhase' = "done"
             /\ UNCHANGED <<dmParallel, dmSent, dmEvents, dmCallback, dmThrown>>
        ELSE start(call, sync)

\* writeAttributes(deviceId, objectType, objectId, resourceId, attributes, callback):
\* async.parallel starts registry.get, then createQueryParams; the first error it is
\* handed ends it, and results handed to it afterwards are dropped
writeAttributes(deviceId, objectType, objectId, resourceId, attributes, sync) ==
    LET call == Call("writeAttributes", deviceId, objectType, objectId, resourceId,
                     Callback, <<>>, attributes, Callback, sync)
        params == createQueryParams(attributes)
    IN  /\ dmPhase = "idle"
        /\ dmCall' = call
        /\ UNCHANGED <<clientVars, dmEvents>>
        /\ IF sync
           THEN IF deviceId \notin DOMAIN Registry
                THEN failWith(call, LookupError(deviceId)) /\ dmParallel' = "answered"
                ELSE IF params.error # NoError
                     THEN failWith(call, params.error) /\ dmParallel' = "answered"
                     ELSE sendOnTransport(buildRequest(Registry[deviceId], call))
                          /\ dmParallel' = "answered"
           ELSE IF params.error # NoError
                THEN /\ invoke(call.callback, params.error, NoResult)
                     /\ dmParallel' = "answered"
                     /\ dmPhase' = "lookup"
                     /\ UNCHANGED dmSent
                ELSE /\ dmParallel' = "waiting"
                     /\ dmPhase' = "lookup"
                     /\ UNCHANGED <<dmSent, dmCallback, dmThrown>>

\* registry.get answers after the call returned
lookupAnswer ==
    /\ dmPhase = "lookup"
    /\ UNCHANGED <<dmCall, dmEvents>>
    /\ IF dmParallel = "answered"
       THEN /\ dmPhase' = "done"
            /\ UNCHANGED <<dmParallel, dmSent, dmCallback, dmThrown>>
       ELSE resolved(dmCall)
    /\ UNCHANGED clientVars

\* coapUtils.sendRequest hands the response to the operation's last task
transportResponse(res) ==
    /\ dmPhase = "sent"
    /\ dmPhase' = "done"
    /\ dmEvents' = Append(dmEvents, [res |-> res, event |-> "response"])
    /\ LET outcome == interpret(res, dmCall)
       IN  invoke(dmCall.callback, outcome.error, outcome.result)
    /\ UNCHANGED <<dmCall, dmParallel, dmSent>>
    /\ UNCHANGED clientVars

\* coapUtils.sendRequest reports a transport error
transportError ==
    /\ dmPhase = "sent"
    /\ dmEvents' = Append(dmEvents,
                          [res |-> [code |-> "none", payload |-> <<>>], event |-> "error"])
    /\ failWith(dmCall, TransportError)
    /\ UNCHANGED <<dmCall, dmParallel>>
    /\ UNCHANGED clientVars

\* execute(callback) called with the arguments args: callback(null), the callback
\* being the first argument whatever the caller passed after it
execute(args) ==
    /\ dmPhase = "idle"
    /\ dmCall' = Call("execute", "", Undef, Undef, Undef, Last(args), <<>>, <<>>,
                      args[1], TRUE)
    /\ dmPhase' = "done"
    /\ IF args[1].type = "function"
       THEN invoke(args[1], NoError, NoResult)
       ELSE dmThrown' = dmThrown \cup {"callbackNotAFunction"} /\ UNCHANGED dmCallback
    /\ UNCHANGED <<dmParallel, dmSent, dmEvents>>
    /\ UNCHANGED clientVars

\* remove(deviceId, objectType, objectId, callback): callback(null)
remove(deviceId, objectType, objectId, callback) ==
    /\ dmPhase = "idle"
    /\ dmCall' = Call("remove", deviceId, objectType, objectId, Undef, callback, <<>>, <<>>,
                      callback, TRUE)
    /\ dmPhase' = "done"
    /\ IF callback.type = "function"
       THEN invoke(callback, NoError, NoResult)
       ELSE dmThrown' = dmThrown \cup {"callbackNotAFunction"} /\ UNCHANGED dmCallback
    /\ UNCHANGED <<dmParallel, dmSent, dmEvents>>
    /\ UNCHANGED clientVars

\* the shapes in which discover is called: one, two or three address components,
\* then the completion callback
DiscoverArgs ==
    {<<t, Callback, Undef, Undef>> : t \in Ids}
        \cup {<<t, i, Callback, Undef>> : t \in Ids, i \in Ids}
        \cup {<<t, i, r, Callback>> : t \in Ids, i \in Ids, r \in Ids}

\* execute called with its callback alone, and with the arguments of the other
\* operations: device id, object type, instance, resource, callback
ExecuteArgs == {<<Callback>>, <<Num(1), Num(1), Num(0), Num(1), Callback>>}

AttributeNames == {"pmin", "lt", "foo", "bar"}
AttributeMaps ==
    {a \in SeqsUpTo([name : AttributeNames, value : {"5"}], MaxAttrs) :
        \A k, l \in DOMAIN a : k # l => a[k].name # a[l].name}

\* address components of writeAttributes: the instance and the resource are optional
OptionalIds == Ids \cup {Undef}
Values == {<<50, 48>>}

\* an operation is called while none is in progress; the arguments are drawn then
DMStep ==
    \/ /\ dmPhase = "idle"
       /\ \E d \in DeviceIds, t \in Ids, i \in Ids, r \in Ids, sync \in BOOLEAN :
            read(d, t, i, r, sync)
    \/ /\ dmPhase = "idle"
       /\ \E d \in DeviceIds, t \in Ids, i \in Ids, r \in Ids, v \in Values,
             sync \in BOOLEAN :
            write(d, t, i, r, v, sync)
    \/ /\ dmPhase = "idle"
       /\ \E d \in DeviceIds, t \in Ids, i \in Ids, sync \in BOOLEAN :
            create(d, t, i, sync)
    \/ /\ dmPhase = "idle"
       /\ \E d \in DeviceIds, a \in DiscoverArgs, sync \in BOOLEAN :
            discover(d, a[1], a[2], a[3], a[4], sync)
    \/ /\ dmPhase = "idle"
       /\ \E d \in DeviceIds, t \in Ids, i \in OptionalIds, r \in OptionalIds,
             a \in AttributeMaps, sync \in BOOLEAN :
            /\ (i = Undef => r = Undef)
            /\ writeAttributes(d, t, i, r, a, sync)
    \/ lookupAnswer
    \/ \E res \in DMResponses : transportResponse(res)
    \/ transportError
    \/ \E args \in ExecuteArgs : execute(args)
    \/ \E d \in DeviceIds, t \in Ids, i \in Ids : remove(d, t, i, Callback)

NextDM == DMStep

SpecDM == Init /\ [][NextDM]_vars

\* ------------------------------------------------- the router on its own
RouteTables ==
    SeqsUpTo({<<m, IntPathPattern, op>> : m \in {"GET", "PUT"}, op \in DOMAIN loadHandlers},
             MaxRoutes)

\* a started router whose client holds the serverInfo, with any route table over
\* the loaded handlers
InitRouter ==
    /\ InitDM
    /\ server = "listening"
    /\ routes \in RouteTables
    /\ handlers = loadHandlers
    /\ deviceInformation = [currentHost |-> "localhost", currentPort |-> "5683",
                            location |-> "", serverInfo |-> "serverInfo"]
    /\ req = NoRequest
    /\ regPhase = "sent"
    /\ errorEmitted = FALSE
    /\ regEvents = <<>>
    /\ regCallback = <<[result |-> deviceInformation, error |-> NoError]>>
    /\ stopCalls = <<>>
    /\ outReqs = <<>>
    /\ updCallback = <<>>
    /\ unregCallback = <<>>
    /\ registryObjects = <<>>
    /\ thrown = {}
    /\ lastDispatch = NoDispatch

\* dataHandler keeps nothing from one request to the next: a behaviour has one
\* inbound request, before and after any calls of setHandler
RouterStep ==
    \/ \E type \in HandlerTypes, handler \in UserHandlers : setHandler(type, handler)
    \/ /\ lastDispatch = NoDispatch
       /\ \E request \in Requests : dispatch(request)

NextRouter == RouterStep

SpecRouter == InitRouter /\ [][NextRouter]_vars


\* ------------------------------------- the router during the client's start
\* the responses without options
PlainResponses == [code : RegCodes, options : {<<>>}]

\* register starts the local router and registers; a request can arrive from the
\* moment the port is bound (one request per behaviour, at any moment), and the
\* user sets handlers once register handed it the deviceInformation
NextStart ==
    \/ \E h \in Hosts, p \in Ports, u \in Urls, e \in Endpoints : register(h, p, u, e)
    \/ \E ok \in BOOLEAN : bind(ok)
    \/ \E sync \in BOOLEAN : listenCallback(sync)
    \/ sendRequest
    \/ \E res \in PlainResponses : regResponse(res)
    \/ \E type \in HandlerTypes, handler \in UserHandlers : setHandler(type, handler)
    \/ /\ lastDispatch = NoDispatch
       /\ \E request \in Requests : dispatch(request)

SpecStart == Init /\ [][NextStart]_vars

\* ------------------------------------------- the payload of a registration
ListedUris == {"/3/0", "/1/0"}
Listings == SeqsUpTo(ListedUris, MaxListed)

\* the client before register, with any listing in its object registry
InitPayload ==
    /\ InitDM
    /\ server = "none"
    /\ routes = <<>>
    /\ handlers = NullHandlers
    /\ deviceInformation = NoDevice
    /\ req = NoRequest
    /\ regPhase = "idle"
    /\ errorEmitted = FALSE
    /\ regEvents = <<>>
    /\ regCallback = <<>>
    /\ stopCalls = <<>>
    /\ outReqs = <<>>
    /\ updCallback = <<>>
    /\ unregCallback = <<>>
    /\ registryObjects \in Listings
    /\ thrown = {}
    /\ lastDispatch = NoDispatch

\* register up to the sending of the request that carries the payload
NextPayload ==
    \/ \E h \in Hosts, p \in Ports, u \in Urls, e \in Endpoints : register(h, p, u, e)
    \/ \E ok \in BOOLEAN : bind(ok)
    \/ \E sync \in BOOLEAN : listenCallback(sync)
    \/ sendRequest

SpecPayload == InitPayload /\ [][NextPayload]_vars

\* ------------------------------------------------- the registration lifecycle
Next == NextClient

Spec == Init /\ [][Next]_vars

\* ================================================================== claims

\* ---- C1
MatchingRoutes(request) == {i \in 1..Len(routes) : RouteMatches(request, routes[i])}

FirstMatching(request) ==
    CHOOSE i \in MatchingRoutes(request) : \A j \in MatchingRoutes(request) : i <= j

DispatchedAsClaimed(d) ==
    IF MatchingRoutes(d.request) = {}
    THEN /\ d.outcome.invoked = <<>>
         /\ d.outcome.code = "4.04"
         /\ d.outcome.ended
         /\ d.outcome.body = ""
    ELSE LET op == routes[FirstMatching(d.request)][3]
         IN  /\ Len(d.outcome.invoked) = 1
             /\ d.outcome.invoked[1].lib = loadHandlers[op].lib
             /\ d.outcome.invoked[1].request = d.request
             /\ d.outcome.invoked[1].user = handlers[op].user
             /\ ~d.outcome.ended

\* C1: whenever the router handles a request, the first route of the table (in
\* order) whose method equals the request's and whose pattern matches its path has
\* its library handler called exactly once, with the request and the operation's
\* current user handler, and no other handler is called; with no matching route the
\* response gets code 4.04 and is ended with an empty body, and no handler is called.
C1_RouterDispatch ==
    [][lastDispatch' # lastDispatch => DispatchedAsClaimed(lastDispatch')]_vars

\* two routes match the request, the first one's handler was called with a user
\* handler installed by setHandler
C1_Witness ==
    /\ Cardinality(MatchingRoutes(lastDispatch.request)) = 2
    /\ routes[1][3] # routes[2][3]
    /\ Len(lastDispatch.outcome.invoked) = 1
    /\ lastDispatch.outcome.invoked[1].lib = loadHandlers[routes[1][3]].lib
    /\ lastDispatch.outcome.invoked[1].user = "userHandler"

\* ---- C2
EventsOf(events, kind) == {k \in 1..Len(events) : events[k].event = kind}

\* C2: when two or more transport error events and no response event have been
\* delivered for the registration request, register's completion callback has been
\* invoked exactly once, with ServerNotFound carrying host:port.
C2_ErrorReportedOnce ==
    (Cardinality(EventsOf(regEvents, "error")) >= 2 /\ EventsOf(regEvents, "response") = {})
        => regCallback = <<[result |-> NoDevice,
                            error |-> ServerNotFound(req.host, req.port)]>>

\* the same, when the local router had started
C2_ErrorReportedOnceWhenStarted ==
    (/\ Cardinality(EventsOf(regEvents, "error")) >= 2
     /\ EventsOf(regEvents, "response") = {}
     /\ ~IsUndefined(deviceInformation))
        => regCallback = <<[result |-> NoDevice,
                            error |-> ServerNotFound(req.host, req.port)]>>

\* ---- C3
LocationPathValues(options) ==
    {options[k].value : k \in {l \in 1..Len(options) : options[l].name = "Location-Path"}}

\* the event is a 2.01 response whose Location-Path option has value V
Carries(e, V) ==
    e.event = "response" /\ e.res.code = "2.01" /\ LocationPathValues(e.res.options) = {V}

RecordsALocation(e) ==
    e.event = "response" /\ e.res.code = "2.01" /\ LocationPathValues(e.res.options) # {}

\* the last 2.01 response that carried a Location-Path option carried V
LastCarried(events, V) ==
    \E k \in 1..Len(events) :
        /\ Carries(events[k], V)
        /\ \A l \in (k + 1)..Len(events) : ~RecordsALocation(events[l])

Delivered(events, events2) == Len(events2) = Len(events) + 1

\* C3: when register receives a 2.01 response carrying a Location-Path option with
\* value V, the deviceInformation handed to the callback has location V; and every
\* update request (PUT) and unregister request (DELETE) created afterwards has
\* pathname V and the host and port given to register.
C3_RegistrationRoundTrip ==
    [][
        /\ \A V \in Locations :
            (/\ Delivered(regEvents, regEvents')
             /\ Carries(Last(regEvents'), V)
             /\ regCallback' # regCallback)
                => /\ Last(regCallback').error = NoError
                   /\ Last(regCallback').result.location = V
                   /\ deviceInformation'.location = V
        /\ \A V \in Locations :
            (Delivered(outReqs, outReqs') /\ LastCarried(regEvents, V))
                => /\ Last(outReqs').pathname = V
                   /\ Last(outReqs').host = req.host
                   /\ Last(outReqs').port = req.port
                   /\ Last(outReqs').method =
                        (IF Last(outReqs').kind = "update" THEN "PUT" ELSE "DELETE")
      ]_vars

\* an update and an unregister were sent to the location a 2.01 response carried
C3_Witness ==
    /\ LastCarried(regEvents, "/rd/2")
    /\ Len(regCallback) >= 1
    /\ regCallback[1].error = NoError
    /\ regCallback[1].result.location = "/rd/2"
    /\ \E i \in CallsOf("update") : outReqs[i].pathname = "/rd/2"
    /\ \E i \in CallsOf("unregister") : outReqs[i].pathname = "/rd/2"

\* ---- C4
Location(d) == IF IsUndefined(d) THEN "" ELSE d.location

\* C4: a response to the registration request whose code is not 2.01 hands the
\* callback a RegistrationFailed error carrying that code and no deviceInformation,
\* and leaves the location unchanged; the location changes only on a 2.01
\* response, and is empty as long as no 2.01 response was received.
C4_RegistrationRejected ==
    /\ [][/\ (/\ Delivered(regEvents, regEvents')
              /\ Last(regEvents').event = "response"
              /\ Last(regEvents').res.code # "2.01")
                => /\ regCallback' =
                        Append(regCallback,
                               [result |-> NoDevice,
                                error |-> RegistrationFailed(Last(regEvents').res.code)])
                   /\ Location(deviceInformation') = Location(deviceInformation)
          /\ Location(deviceInformation') # Location(deviceInformation)
                => /\ Delivered(regEvents, regEvents')
                   /\ Last(regEvents').event = "response"
                   /\ Last(regEvents').res.code = "2.01"
         ]_vars
    /\ []((\A k \in 1..Len(regEvents) :
                ~(regEvents[k].event = "response" /\ regEvents[k].res.code = "2.01"))
            => Location(deviceInformation) = "")

\* a rejected registration whose response carried a Location-Path option
C4_Witness ==
    /\ Len(regEvents) = 1
    /\ regEvents[1].event = "response"
    /\ regEvents[1].res.code = "4.04"
    /\ LocationPathValues(regEvents[1].res.options) = {"/rd/1"}
    /\ regCallback = <<[result |-> NoDevice, error |-> RegistrationFailed("4.04")]>>
    /\ ~IsUndefined(deviceInformation)
    /\ deviceInformation.location = ""

\* ---- C9
ResponsesTo(kind) ==
    {<<i, k>> \in (1..Len(outReqs)) \X (1..MaxReqEvents + 1) :
        /\ outReqs[i].kind = kind
        /\ k <= Len(outReqs[i].events)
        /\ outReqs[i].events[k].event = "response"}

StopsBy(by) == {k \in 1..Len(stopCalls) : stopCalls[k].by = by}

\* C9: unregister sends a DELETE to the recorded location; each response to it,
\* whatever its code, stops the local router, and the completion callback is
\* invoked with the result of that stop once the stop has completed, and never
\* before a response.
C9_Unregister ==
    /\ [][Delivered(outReqs, outReqs') /\ Last(outReqs').kind = "unregister"
            => /\ Last(outReqs').method = "DELETE"
               /\ Last(outReqs').pathname = deviceInformation.location
               /\ Last(outReqs').host = deviceInformation.currentHost
               /\ Last(outReqs').port = deviceInformation.currentPort]_vars
    /\ [](/\ Cardinality(StopsBy("unregister")) = Cardinality(ResponsesTo("unregister"))
          /\ (ResponsesTo("unregister") # {} => server = "closed")
          /\ Len(unregCallback) =
                Cardinality({k \in StopsBy("unregister") : stopCalls[k].done})
          /\ \A j \in 1..Len(unregCallback) :
                /\ unregCallback[j].stop \in StopsBy("unregister")
                /\ stopCalls[unregCallback[j].stop].done
                /\ unregCallback[j].error = stopCalls[unregCallback[j].stop].result)

\* unregister was answered 4.04, the router was stopped and the stop's error handed
\* to the callback
C9_Witness ==
    /\ \E i \in CallsOf("unregister") :
            outReqs[i].events = <<ResponseEvent("4.04")>>
    /\ unregCallback = <<[error |-> [name |-> "closeError"], stop |-> 1]>>
    /\ server = "closed"

\* ---- C10
UpdateAnswered(i) ==
    /\ i \in CallsOf("update")
    /\ Delivered(outReqs[i].events, outReqs'[i].events)
    /\ Last(outReqs'[i].events).event = "response"

\* C10: every response to an update request, whatever its code, makes the
\* completion callback be invoked with no error and with the deviceInformation,
\* whose host, port, location and serverInfo the update leaves unchanged, and the
\* local router is not stopped.
C10_UpdatePermissive ==
    [][\A i \in 1..Len(outReqs) :
        UpdateAnswered(i)
            => /\ updCallback' = Append(updCallback,
                    [request |-> i, result |-> deviceInformation, error |-> NoError])
               /\ deviceInformation' = deviceInformation
               /\ stopCalls' = stopCalls
               /\ server' = server
      ]_vars

\* an update answered 4.04 reported success with the registered record
C10_Witness ==
    /\ \E i \in CallsOf("update") : outReqs[i].events = <<ResponseEvent("4.04")>>
    /\ Len(updCallback) = 1
    /\ updCallback[1].error = NoError
    /\ updCallback[1].result = deviceInformation
    /\ deviceInformation.location = "/rd/1"
    /\ server = "listening"

\* ---- C5
Whitelist == {"pmin", "pmax", "gt", "lt", "st", "cancel"}

Offending(attributes) == {attributes[k].name : k \in DOMAIN attributes} \ Whitelist

ListsEvery(error, attributes) ==
    /\ error.name = "UnsupportedAttributes"
    /\ {error.arg[k] : k \in DOMAIN error.arg} = Offending(attributes)
    /\ Len(error.arg) = Cardinality(Offending(attributes))

InvalidAttributesWritten ==
    /\ dmCall.op = "writeAttributes"
    /\ Offending(dmCall.attributes) # {}

\* C5 as stated: for an attribute map with a key outside the whitelist no request
\* is sent and the callback receives UnsupportedAttributes listing every offending
\* key, whatever the order and the outcome of the registry lookup.
C5_ValidationErrorAlways ==
    InvalidAttributesWritten
        => /\ dmSent = <<>>
           /\ Len(dmCallback) = 1
           /\ dmCallback[1].fn = "callback"
           /\ ListsEvery(dmCallback[1].error, dmCall.attributes)

\* C5 as amended: for an attribute map with a key outside the whitelist no request
\* is sent and the callback is invoked exactly once, with UnsupportedAttributes
\* listing every offending key, unless the registry lookup has failed before the
\* validation step ran (a lookup that answers with an error during the call), in
\* which case the callback receives the lookup error; a lookup that answers later,
\* whatever its outcome, changes nothing.
C5_ValidationErrorUnlessLookupFailedFirst ==
    InvalidAttributesWritten
        => /\ dmSent = <<>>
           /\ Len(dmCallback) = 1
           /\ dmCallback[1].fn = "callback"
           /\ IF dmCall.sync /\ dmCall.deviceId \notin DOMAIN Registry
              THEN dmCallback[1].error = LookupError(dmCall.deviceId)
              ELSE ListsEvery(dmCallback[1].error, dmCall.attributes)

\* two offending keys were reported together, and the lookup of an unknown device
\* that answered afterwards was dropped
C5_Witness ==
    /\ InvalidAttributesWritten
    /\ Cardinality(Offending(dmCall.attributes)) = 2
    /\ ~dmCall.sync
    /\ dmCall.deviceId \notin DOMAIN Registry
    /\ dmPhase = "done"
    /\ Len(dmCallback) = 1
    /\ ListsEvery(dmCallback[1].error, dmCall.attributes)
    /\ dmSent = <<>>

\* ---- C6
WriteAnswered ==
    /\ dmCall.op = "write"
    /\ Len(dmEvents) = 1
    /\ dmEvents[1].event = "response"

WriteOutcome(notFoundPath) ==
    LET res == dmEvents[1].res
    IN  dmCallback =
            <<[result |-> IF res.code = "2.04" THEN toString(res.payload) ELSE NoResult,
               error |-> IF res.code = "2.04" THEN NoError
                         ELSE IF res.code = "4.04" THEN ObjectNotFound(notFoundPath)
                         ELSE ClientError(res.code),
               fn |-> "callback"]>>

\* C6 as stated: a response to a write yields success with the payload on 2.04,
\* ObjectNotFound carrying the path that was targeted on 4.04, ClientError carrying
\* the code otherwise; exactly one outcome, delivered once.
C6_WriteMappingTargetPath ==
    WriteAnswered => WriteOutcome(dmSent[1].pathname)

\* C6 as amended: the same, the ObjectNotFound of a 4.04 carrying the path of the
\* object instance, /objectType/objectId, not the path of the resource targeted.
C6_WriteMappingInstancePath ==
    WriteAnswered
        => WriteOutcome(<<"/", Str(dmCall.objectType), "/", Str(dmCall.objectId)>>)

\* a write to /1/0/1 answered 4.04 reported ObjectNotFound for /1/0
C6_Witness ==
    /\ WriteAnswered
    /\ dmSent[1].pathname = <<"/", "1", "/", "0", "/", "1">>
    /\ dmEvents[1].res.code = "4.04"
    /\ dmCallback = <<[result |-> NoResult,
                       error |-> ObjectNotFound(<<"/", "1", "/", "0">>),
                       fn |-> "callback"]>>

\* ---- C7
\* discover called without any usable argument returns before the lookup
LookupMade ==
    dmCall.op = "discover"
        => Truthy(dmCall.objectType) \/ Truthy(dmCall.objectId) \/ Truthy(dmCall.resourceId)

\* C7: for read, write, create and discover, when the registry lookup of the device
\* id fails no request is built or sent and the completion callback is invoked
\* exactly once, with the lookup error.
C7_LookupFailureShortCircuits ==
    (/\ dmCall.op \in {"read", "write", "create", "discover"}
     /\ dmCall.deviceId \notin DOMAIN Registry
     /\ LookupMade
     /\ dmPhase = "done")
        => /\ dmSent = <<>>
           /\ dmCallback = <<[result |-> NoResult, error |-> LookupError(dmCall.deviceId),
                              fn |-> "callback"]>>

\* ---- C8
\* the address components discover was called with: the arguments before the callback
Supplied(call) ==
    IF call.objectId = Callback THEN <<call.objectType>>
    ELSE IF call.resourceId = Callback THEN <<call.objectType, call.objectId>>
    ELSE <<call.objectType, call.objectId, call.resourceId>>

RECURSIVE PathOf(_)
PathOf(components) ==
    IF components = <<>> THEN <<>>
    ELSE <<"/", ToString(Head(components).num)>> \o PathOf(Tail(components))

\* C8: discover called with a device id, one, two or three address components (any
\* non-negative integers) and the completion callback sends a GET with Accept
\* application/link-format whose path has exactly those components in order, and
\* the function it calls on completion is the argument after the last component.
C8_DiscoverArity ==
    (/\ dmCall.op = "discover"
     /\ dmCall.deviceId \in DOMAIN Registry
     /\ dmPhase \in {"sent", "done"})
        => /\ Len(dmSent) = 1
           /\ dmSent[1].method = "GET"
           /\ dmSent[1].options = <<[name |-> "Accept", value |-> "application/link-format"]>>
           /\ dmSent[1].pathname = PathOf(Supplied(dmCall))
           /\ dmCall.callback = Callback

\* ---- C11
ServerNotFoundReported ==
    \E k \in 1..Len(regCallback) : regCallback[k].error.name = "ServerNotFound"

\* C11: each transport error event delivered for the registration request while the
\* local router that register started is up (listening, or already being closed)
\* requests a stop of that router; so once register has reported ServerNotFound
\* the router has been asked to stop and is not left listening, and after any
\* error event no router is listening.
C11_TeardownOnError ==
    /\ [][(/\ Delivered(regEvents, regEvents')
           /\ Last(regEvents').event = "error"
           /\ server \in {"listening", "closed"})
            => /\ stopCalls' = stopCoap(stopCalls, "register")
               /\ server' = "closed"]_vars
    /\ [](ServerNotFoundReported => (StopsBy("register") # {} /\ server = "closed"))
    /\ [](EventsOf(regEvents, "error") # {} => server \notin {"bound", "listening"})

\* an error event was delivered to a started register: ServerNotFound was reported
\* and the stop of its router was requested
C11_Witness ==
    /\ regEvents = <<[res |-> NoResponse, event |-> "error"]>>
    /\ ServerNotFoundReported
    /\ Len(stopCalls) = 1
    /\ stopCalls[1].by = "register"
    /\ server = "closed"

\* ---- C12
\* C12: execute and remove, called with the device id and the address components
\* first and the completion callback as the last argument, invoke that callback
\* exactly once, with no error, and send no request.
C12_UniformPlaceholders ==
    (dmCall.op \in {"execute", "remove"} /\ dmCall.last = Callback)
        => /\ dmSent = <<>>
           /\ dmThrown = {}
           /\ dmCallback = <<[result |-> NoResult, error |-> NoError, fn |-> "callback"]>>

\* the same for remove alone
C12_RemovePlaceholder ==
    dmCall.op = "remove"
        => /\ dmSent = <<>>
           /\ dmCallback = <<[result |-> NoResult, error |-> NoError, fn |-> "callback"]>>

\* ---- C13
LibHandlers == {handlers[op].lib : op \in DOMAIN handlers}

\* C13: from the start of the router on, the window between the bound listener and
\* the loading of the handlers and routes included, every operation named in the
\* route table has a handler pair in the handler table; a request arriving at any
\* moment is handed to an existing library handler or gets the not-found response,
\* and the dispatch never fails on a missing handler.
C13_NoMissingHandler ==
    /\ [](\A i \in 1..Len(routes) : routes[i][3] \in DOMAIN handlers)
    /\ [][lastDispatch' # lastDispatch
            => /\ ~lastDispatch'.outcome.threw
               /\ \/ lastDispatch'.outcome = NotFound
                  \/ /\ Len(lastDispatch'.outcome.invoked) = 1
                     /\ lastDispatch'.outcome.invoked[1].lib \in LibHandlers]_vars

\* a request for /1 arrived after the port was bound and before the handlers and
\* routes were loaded: it got the not-found response
C13_Witness ==
    /\ server = "bound"
    /\ routes = <<>>
    /\ handlers = NullHandlers
    /\ lastDispatch.request = [url |-> <<"/", "1">>, method |-> "GET"]
    /\ lastDispatch.outcome = NotFound

\* ---- C14
\* C14: once the start of the local router has failed (the transport could not
\* bind) and startListener has called back, register has reported an error to its
\* completion callback exactly once, the registration request is not sent, and no
\* successful registration is ever reported.
C14_StartFailurePropagated ==
    server = "failed"
        => /\ Len(regCallback) = 1
           /\ regCallback[1].error # NoError
           /\ req.state # "sent"
           /\ ~UserHoldsDevice

\* the part that does hold: after a failed start no success is reported
C14_NoSuccessAfterFailedStart == server = "failed" => ~UserHoldsDevice

\* ---- C15
\* the requests of a kind that were delivered a transport error
Failed(kind) ==
    {i \in CallsOf(kind) :
        \E k \in 1..Len(outReqs[i].events) : outReqs[i].events[k].event = "error"}

\* C15: an update or unregister request that was delivered a transport error has
\* had its completion callback invoked, exactly once and with a failure: every
\* failed update has exactly one callback entry, which carries an error, and there
\* are at least as many failures reported to unregister's callback as unregister
\* requests that failed.
C15_TransportErrorReported ==
    /\ \A i \in Failed("update") :
          \E k \in 1..Len(updCallback) :
              /\ updCallback[k].request = i
              /\ updCallback[k].error # NoError
              /\ \A l \in 1..Len(updCallback) : updCallback[l].request = i => l = k
    /\ Cardinality({k \in 1..Len(unregCallback) : unregCallback[k].error # NoError})
           >= Cardinality(Failed("unregister"))

\* ---- C16
\* the whole path is one or more segments, each a '/' followed by digits
WholeIntegerPath(path) ==
    /\ Len(path) >= 2
    /\ path[1] = "/"
    /\ path[Len(path)] \in Digits
    /\ \A i \in 1..Len(path) : path[i] \in Digits \cup {"/"}
    /\ \A i \in 1..(Len(path) - 1) : ~(path[i] = "/" /\ path[i + 1] = "/")

\* C16: a handled request is handed to a handler exactly when a route has its method
\* and its whole path is made of /<integer> segments; a request with a registered
\* method and a path with a non-integer segment gets the not-found response.
C16_WholePathMatches ==
    lastDispatch # NoDispatch
        => ((lastDispatch.outcome # NotFound)
               <=> /\ \E i \in 1..Len(routes) : routes[i][1] = lastDispatch.request.method
                   /\ WholeIntegerPath(pathname(lastDispatch.request.url)))

\* the direction that does hold: a whole integer path with a registered method is
\* handed to a handler
C16_IntegerPathsMatch ==
    (/\ lastDispatch # NoDispatch
     /\ \E i \in 1..Len(routes) : routes[i][1] = lastDispatch.request.method
     /\ WholeIntegerPath(pathname(lastDispatch.request.url)))
        => lastDispatch.outcome # NotFound

\* ---- C17
\* '?' followed by name=value& for each key of the map, in the map's order
QueryString(attributes) ==
    [k \in 1..(4 * Len(attributes) + 1) |->
        IF k = 1 THEN "?"
        ELSE CASE (k - 2) % 4 = 0 -> attributes[((k - 2) \div 4) + 1].name
               [] (k - 2) % 4 = 1 -> "="
               [] (k - 2) % 4 = 2 -> attributes[((k - 2) \div 4) + 1].value
               [] (k - 2) % 4 = 3 -> "&"]

\* the path with one segment for each address component the caller supplied
SuppliedPath(call) ==
    <<"/", Str(call.objectType)>>
        \o (IF call.objectId # Undef THEN <<"/", Str(call.objectId)>> ELSE <<>>)
        \o (IF call.resourceId # Undef THEN <<"/", Str(call.resourceId)>> ELSE <<>>)

ValidAttributesWritten ==
    /\ dmCall.op = "writeAttributes"
    /\ Offending(dmCall.attributes) = {}
    /\ dmCall.deviceId \in DOMAIN Registry
    /\ dmPhase \in {"sent", "done"}

\* C17: for an attribute map whose keys are all in the whitelist and a known
\* device, exactly one request is sent, a PUT whose path has one segment for each
\* address component supplied, followed by the query string '?' and one
\* name=value& for each key of the map.
C17_WriteAttributesRequest ==
    ValidAttributesWritten
        => /\ Len(dmSent) = 1
           /\ dmSent[1].method = "PUT"
           /\ dmSent[1].pathname = SuppliedPath(dmCall) \o QueryString(dmCall.attributes)

\* the part that does hold: one PUT whose pathname ends with the query string
C17_QueryStringSent ==
    ValidAttributesWritten
        => /\ Len(dmSent) = 1
           /\ dmSent[1].method = "PUT"
           /\ \E n \in 1..Len(dmSent[1].pathname) :
                 SubSeq(dmSent[1].pathname, n, Len(dmSent[1].pathname))
                     = QueryString(dmCall.attributes)

\* ---- C18
\* <uri> of each object in listing order, a single ',' between two neighbours
Joined(objects) ==
    [k \in 1..(IF objects = <<>> THEN 0 ELSE 4 * Len(objects) - 1) |->
        CASE k % 4 = 1 -> "<"
          [] k % 4 = 2 -> objects[(k + 2) \div 4]
          [] k % 4 = 3 -> ">"
          [] k % 4 = 0 -> ","]

\* C18: the payload sent with the registration request is, for every listing of
\* the object registry (the empty one and a one-element one included), the
\* objects' URIs in listing order, each wrapped as <objectUri>, joined by single
\* commas with no leading or trailing comma, one token for each listed object.
C18_PayloadJoined ==
    req.state = "sent"
        => /\ req.payload = Joined(registryObjects)
           /\ Cardinality({k \in 1..Len(req.payload) : req.payload[k] = "<"})
                  = Len(registryObjects)
           /\ req.payload # <<>> => (Head(req.payload) # "," /\ Last(req.payload) # ",")

\* the payload of a listing of three objects, the first two different, was sent
C18_Witness ==
    /\ req.state = "sent"
    /\ Len(registryObjects) = 3
    /\ registryObjects[1] # registryObjects[2]
    /\ Len(req.payload) = 11
    /\ req.payload[4] = ","

\* ---- C19
\* C19: whatever sequence of response and transport error events is delivered for
\* the registration request, register's completion callback has been invoked at
\* most once.
C19_RegisterCompletesOnce == Len(regCallback) <= 1

\* the part that does hold: transport errors alone complete register at most once
C19_ErrorsCompleteOnce == EventsOf(regEvents, "response") = {} => Len(regCallback) <= 1

\* ---- C20
\* C20: over any sequence of registration events and lifecycle calls, a stop of
\* the local router has been requested at most once.
C20_StoppedOnce == Len(stopCalls) <= 1

\* ---- C21
\* register reported a failure of the given kind to its completion callback
FailureReported(names) ==
    \E k \in 1..Len(regCallback) :
        regCallback[k].error # NoError /\ regCallback[k].error.name \in names

\* the local router is not left running: it never started, it is closed, or a
\* stop of it has been requested
RouterReleased == server \in {"failed", "closed"} \/ stopCalls # <<>>

\* C21: whenever register has reported a failure to its completion callback,
\* RegistrationFailed as well as ServerNotFound, the local router that register
\* started has been stopped or its stop has been requested.
C21_NoRouterLeftAfterFailure ==
    FailureReported({"RegistrationFailed", "ServerNotFound"}) => RouterReleased

\* the part that does hold: a reported ServerNotFound leaves no router running
C21_NoRouterLeftAfterServerNotFound == FailureReported({"ServerNotFound"}) => RouterReleased

\* ---- C22
\* the local router has started and its handlers and routes are loaded (a later
\* stop closes the server and leaves the tables)
RouterLoaded ==
    /\ server \in {"listening", "closed"}
    /\ DOMAIN handlers = DOMAIN loadHandlers
    /\ routes = loadRoutes

\* C22: when the registration payload has been sent, the local router had been
\* started and its handlers and routes loaded, and the response listener and the
\* transport error listener of the request are attached, so that no event of the
\* request can be delivered without a listener.
C22_SentAfterStartAndListeners ==
    req.state = "sent" => (RouterLoaded /\ req.onResponse /\ req.onError)

\* the parts that do hold: both listeners are attached when the payload is sent,
\* and the router is started and loaded unless its start failed
C22_ListenersBeforeSend ==
    req.state = "sent"
        => /\ req.onResponse
           /\ req.onError
           /\ server # "failed" => RouterLoaded

====
